---- MODULE Spec2Model ----
(***************************************************************************)
(* A model of the PDF question-answering service (ravibhanawat/pdfmodel):  *)
(*   - EmbeddingCache            (src/services/embedding_service.py)       *)
(*   - the ingestion pipeline    (src/services/rag_service.py,             *)
(*                                src/services/pdf_processor.py,           *)
(*                                src/database/vector_store.py)            *)
(*   - the HTTP handlers         (src/main.py)                             *)
(*                                                                         *)
(* Specifications:                                                         *)
(*   SpecCache      one caller of the cache, calls run one after another   *)
(*   SpecCacheConc  threads calling the cache, statement by statement      *)
(*   Spec           the HTTP handlers and the background ingestion tasks   *)
(*   SpecService    Spec plus direct calls of process_and_store_pdf with   *)
(*                  a caller-chosen document_id                            *)
(*   LiveSpec       Spec with the event loop running every queued task     *)
(***************************************************************************)
EXTENDS Integers, Sequences, FiniteSets, TLC

(***************************************************************************)
(* Bounds of the model.                                                    *)
(***************************************************************************)
NumKeys == 3
NumVecs == 2
MaxCap == 2
MaxOrder == 4
NumThreads == 2

None == "None"

KeyNames == <<"a", "b", "c", "d", "e", "f">>
Keys == {KeyNames[i] : i \in 1..NumKeys}
Embeddings == 1..NumVecs
Capacities == 0..MaxCap
Threads == 1..NumThreads

VARIABLES
    cache,          \* EmbeddingCache.cache: dict text -> embedding
    access_order,   \* EmbeddingCache.access_order: list of texts
    max_size,       \* EmbeddingCache.max_size
    cache_call,     \* the last call of the cache and how it ended
    recency,        \* history: the cached keys, least recently accessed first
    thr,            \* per thread: the call it is in and its position
    base,           \* the cache at the last moment no call was running
    documents_metadata, \* RAGService.documents_metadata: document_id -> record
    collection,     \* the vector store's records, in insertion order
    tasks,          \* the background ingestion tasks, in the order they were added
    running,        \* the task the event loop is running, 0 when none
    uuids,          \* how many uuid4 values were drawn, for documents and chunks
    response,       \* the last HTTP response sent
    deleted,        \* history: the ids whose tracked record was deleted
    call            \* the last call of the vector store or of the question
                    \* answering methods, with what it was given and returned

cacheVars == <<cache, access_order, max_size, cache_call, recency>>
concVars == <<thr, base>>
serviceVars == <<documents_metadata, collection, tasks, running, uuids, response, deleted>>
queryVars == <<call>>
vars == <<cache, access_order, max_size, cache_call, recency, thr, base,
          documents_metadata, collection, tasks, running, uuids, response, deleted, call>>

(***************************************************************************)
(* Python dict and list operations used by the cache.                      *)
(***************************************************************************)
DictSet(d, k, v) == [x \in (DOMAIN d) \cup {k} |-> IF x = k THEN v ELSE d[x]]

DictDel(d, k) == [x \in (DOMAIN d) \ {k} |-> d[x]]

EmptyDict == [x \in {} |-> 0]

InList(s, k) == \E i \in 1..Len(s) : s[i] = k

FirstIndex(s, k) == CHOOSE i \in 1..Len(s) : s[i] = k /\ \A j \in 1..(i - 1) : s[j] # k

ListRemove(s, k) ==
    LET i == FirstIndex(s, k)
    IN  [j \in 1..(Len(s) - 1) |-> IF j < i THEN s[j] ELSE s[j + 1]]

RemoveAll(s, k) == SelectSeq(s, LAMBDA x : x # k)

(***************************************************************************)
(* EmbeddingCache.get as one call.  The result is the cache after the call *)
(* with the exception it raised (None when it returned).                   *)
(***************************************************************************)
GetResult(c, o, k) ==
    IF k \in DOMAIN c
    THEN IF InList(o, k)
         THEN [cache |-> c, order |-> Append(ListRemove(o, k), k),
               exc |-> None, evicted |-> None, hit |-> TRUE]
         ELSE [cache |-> c, order |-> o,
               exc |-> "ValueError", evicted |-> None, hit |-> TRUE]
    ELSE [cache |-> c, order |-> o, exc |-> None, evicted |-> None, hit |-> FALSE]

(***************************************************************************)
(* EmbeddingCache.put as one call.                                         *)
(***************************************************************************)
PutOffByOne(c, o, n, k, v) ==
    IF Cardinality(DOMAIN c) > n /\ o # <<>> /\ Head(o) \in DOMAIN c
    THEN [cache |-> DictSet(DictDel(c, Head(o)), k, v), order |-> Append(Tail(o), k),
          exc |-> None, evicted |-> Head(o), hit |-> FALSE]
    ELSE [cache |-> DictSet(c, k, v), order |-> Append(o, k),
          exc |-> None, evicted |-> None, hit |-> FALSE]

PutResult(c, o, n, k, v) ==
    IF Cardinality(DOMAIN c) >= n
    THEN IF o = <<>>
         THEN [cache |-> c, order |-> o,
               exc |-> "IndexError", evicted |-> None, hit |-> FALSE]
         ELSE IF Head(o) \notin DOMAIN c
              THEN [cache |-> c, order |-> Tail(o),
                    exc |-> "KeyError", evicted |-> None, hit |-> FALSE]
              ELSE [cache |-> DictSet(DictDel(c, Head(o)), k, v),
                    order |-> Append(Tail(o), k),
                    exc |-> None, evicted |-> Head(o), hit |-> FALSE]
    ELSE [cache |-> DictSet(c, k, v), order |-> Append(o, k),
          exc |-> None, evicted |-> None, hit |-> FALSE]

Size == Cardinality(DOMAIN cache)

NoCall == [op |-> "init", key |-> None, exc |-> None, evicted |-> None, lru |-> None]

IdleThread == [pc |-> "idle", op |-> None, key |-> None, val |-> 0,
               oldest |-> None, exc |-> None]

NoResponse == [op |-> "none", doc |-> 0, code |-> 0, status |-> None, docs |-> {},
               in_flight |-> FALSE, raised |-> FALSE]

NoQuery == [op |-> "none", exc |-> None]

(***************************************************************************)
(* The service as RAGService.__init__ leaves it, with nothing stored.      *)
(***************************************************************************)
NothingStored ==
    /\ documents_metadata = EmptyDict
    /\ collection = <<>>
    /\ tasks = <<>>
    /\ running = 0
    /\ uuids = 0
    /\ response = NoResponse
    /\ deleted = {}

InitService == call = NoQuery /\ NothingStored

InitCacheOf(capacities) ==
    /\ cache = EmptyDict
    /\ access_order = <<>>
    /\ max_size \in capacities
    /\ cache_call = NoCall
    /\ recency = <<>>
    /\ thr = [t \in Threads |-> IdleThread]
    /\ base = [cache |-> EmptyDict, order |-> <<>>]

InitCache == InitCacheOf(Capacities) /\ InitService

InitCacheConc == InitCacheOf(Capacities \ {0}) /\ InitService

(***************************************************************************)
(* The true recency order after an access of k and the eviction of e.      *)
(***************************************************************************)
Touch(r, k) == Append(RemoveAll(r, k), k)

Lru(r) == IF r = <<>> THEN None ELSE Head(r)

CachePut(k, v) ==
    LET res == PutResult(cache, access_order, max_size, k, v)
    IN  /\ Len(access_order) < MaxOrder
        /\ cache' = res.cache
        /\ access_order' = res.order
        /\ cache_call' = [op |-> "put", key |-> k, exc |-> res.exc,
                          evicted |-> res.evicted, lru |-> Lru(recency)]
        /\ recency' = IF res.exc # None THEN recency
                      ELSE Touch(RemoveAll(recency, res.evicted), k)
        /\ UNCHANGED <<max_size, thr, base, serviceVars, queryVars>>

CacheGet(k) ==
    LET res == GetResult(cache, access_order, k)
    IN  /\ cache' = res.cache
        /\ access_order' = res.order
        /\ cache_call' = [op |-> "get", key |-> k, exc |-> res.exc,
                          evicted |-> None, lru |-> Lru(recency)]
        /\ recency' = IF res.hit /\ res.exc = None THEN Touch(recency, k) ELSE recency
        /\ UNCHANGED <<max_size, thr, base, serviceVars, queryVars>>

CacheClear ==
    /\ cache' = EmptyDict
    /\ access_order' = <<>>
    /\ cache_call' = [op |-> "clear", key |-> None, exc |-> None,
                      evicted |-> None, lru |-> Lru(recency)]
    /\ recency' = <<>>
    /\ UNCHANGED <<max_size, thr, base, serviceVars, queryVars>>

NextCache ==
    \/ \E k \in Keys, v \in Embeddings : CachePut(k, v)
    \/ \E k \in Keys : CacheGet(k)
    \/ CacheClear

SpecCache == InitCache /\ [][NextCache]_vars

(***************************************************************************)
(* C1: whenever a put evicts an entry, the evicted key is the one whose    *)
(* most recent access (put or get hit) is the oldest among the cached keys.*)
(* This is the claim as stated; the code violates it.                      *)
(***************************************************************************)
C1_EvictsLeastRecentlyUsed ==
    (cache_call.op = "put" /\ cache_call.evicted # None)
        => cache_call.evicted = cache_call.lru

(***************************************************************************)
(* C2: after any sequence of put, get and clear calls, size() never        *)
(* exceeds the capacity the cache was constructed with.                    *)
(***************************************************************************)
C2_SizeWithinCapacity == Size <= max_size

C2_Witness ==
    /\ cache_call.op = "put"
    /\ cache_call.evicted # None
    /\ max_size >= 2
    /\ Size = max_size

(***************************************************************************)
(* Concurrent callers of one EmbeddingCache.  The class takes no lock, so  *)
(* a call is a sequence of statements, each atomic under the interpreter   *)
(* lock, and other threads run between them.                               *)
(*   get:  g1 `if text in self.cache`        (run by the calling step)     *)
(*         g2 `self.access_order.remove(text)`                             *)
(*         g3 `self.access_order.append(text)`                             *)
(*         g4 `return self.cache[text]`                                    *)
(*   put:  p1 `if len(self.cache) >= self.max_size` (the calling step)     *)
(*         p2 `oldest = self.access_order.pop(0)`                          *)
(*         p3 `del self.cache[oldest]`                                     *)
(*         p4 `self.cache[text] = embedding`                               *)
(*         p5 `self.access_order.append(text)`                             *)
(***************************************************************************)
Quiet == \A t \in Threads : thr[t].pc \in {"idle", "done"}

ThreadGet(t, k) ==
    /\ thr[t].pc = "idle"
    /\ thr' = [thr EXCEPT ![t] =
                  [IdleThread EXCEPT !.op = "get", !.key = k,
                                     !.pc = IF k \in DOMAIN cache THEN "g2" ELSE "done"]]
    /\ UNCHANGED <<cacheVars, base, serviceVars, queryVars>>

ThreadGetRemove(t) ==
    /\ thr[t].pc = "g2"
    /\ IF InList(access_order, thr[t].key)
       THEN /\ access_order' = ListRemove(access_order, thr[t].key)
            /\ thr' = [thr EXCEPT ![t].pc = "g3"]
       ELSE /\ access_order' = access_order
            /\ thr' = [thr EXCEPT ![t].pc = "done", ![t].exc = "ValueError"]
    /\ UNCHANGED <<cache, max_size, cache_call, recency, base, serviceVars, queryVars>>

ThreadGetAppend(t) ==
    /\ thr[t].pc = "g3"
    /\ access_order' = Append(access_order, thr[t].key)
    /\ thr' = [thr EXCEPT ![t].pc = "g4"]
    /\ UNCHANGED <<cache, max_size, cache_call, recency, base, serviceVars, queryVars>>

ThreadGetReturn(t) ==
    /\ thr[t].pc = "g4"
    /\ thr' = [thr EXCEPT ![t].pc = "done",
                          ![t].exc = IF thr[t].key \in DOMAIN cache
                                     THEN None ELSE "KeyError"]
    /\ UNCHANGED <<cacheVars, base, serviceVars, queryVars>>

ThreadPut(t, k, v) ==
    /\ thr[t].pc = "idle"
    /\ Len(access_order) < MaxOrder
    /\ thr' = [thr EXCEPT ![t] =
                  [IdleThread EXCEPT !.op = "put", !.key = k, !.val = v,
                                     !.pc = IF Cardinality(DOMAIN cache) >= max_size
                                            THEN "p2" ELSE "p4"]]
    /\ UNCHANGED <<cacheVars, base, serviceVars, queryVars>>

ThreadPutPop(t) ==
    /\ thr[t].pc = "p2"
    /\ IF access_order = <<>>
       THEN /\ access_order' = access_order
            /\ thr' = [thr EXCEPT ![t].pc = "done", ![t].exc = "IndexError"]
       ELSE /\ access_order' = Tail(access_order)
            /\ thr' = [thr EXCEPT ![t].pc = "p3", ![t].oldest = Head(access_order)]
    /\ UNCHANGED <<cache, max_size, cache_call, recency, base, serviceVars, queryVars>>

ThreadPutDel(t) ==
    /\ thr[t].pc = "p3"
    /\ IF thr[t].oldest \in DOMAIN cache
       THEN /\ cache' = DictDel(cache, thr[t].oldest)
            /\ thr' = [thr EXCEPT ![t].pc = "p4"]
       ELSE /\ cache' = cache
            /\ thr' = [thr EXCEPT ![t].pc = "done", ![t].exc = "KeyError"]
    /\ UNCHANGED <<access_order, max_size, cache_call, recency, base, serviceVars, queryVars>>

ThreadPutSet(t) ==
    /\ thr[t].pc = "p4"
    /\ cache' = DictSet(cache, thr[t].key, thr[t].val)
    /\ thr' = [thr EXCEPT ![t].pc = "p5"]
    /\ UNCHANGED <<access_order, max_size, cache_call, recency, base, serviceVars, queryVars>>

ThreadPutAppend(t) ==
    /\ thr[t].pc = "p5"
    /\ access_order' = Append(access_order, thr[t].key)
    /\ thr' = [thr EXCEPT ![t].pc = "done"]
    /\ UNCHANGED <<cache, max_size, cache_call, recency, base, serviceVars, queryVars>>

(***************************************************************************)
(* Every call has returned: the threads are free for their next calls.     *)
(***************************************************************************)
ThreadsJoin ==
    /\ Quiet
    /\ \E t \in Threads : thr[t].pc = "done"
    /\ thr' = [t \in Threads |-> IdleThread]
    /\ base' = [cache |-> cache, order |-> access_order]
    /\ UNCHANGED <<cacheVars, serviceVars, queryVars>>

NextCacheConc ==
    \/ \E t \in Threads, k \in Keys : ThreadGet(t, k)
    \/ \E t \in Threads : ThreadGetRemove(t)
    \/ \E t \in Threads : ThreadGetAppend(t)
    \/ \E t \in Threads : ThreadGetReturn(t)
    \/ \E t \in Threads, k \in Keys, v \in Embeddings : ThreadPut(t, k, v)
    \/ \E t \in Threads : ThreadPutPop(t)
    \/ \E t \in Threads : ThreadPutDel(t)
    \/ \E t \in Threads : ThreadPutSet(t)
    \/ \E t \in Threads : ThreadPutAppend(t)
    \/ ThreadsJoin

SpecCacheConc == InitCacheConc /\ [][NextCacheConc]_vars

(***************************************************************************)
(* The calls made since the threads last joined, run one after another in  *)
(* the order `order` (a sequence of threads) from the cache `st`.          *)
(***************************************************************************)
CallResult(st, t) ==
    IF thr[t].op = "get"
    THEN GetResult(st.cache, st.order, thr[t].key)
    ELSE PutResult(st.cache, st.order, max_size, thr[t].key, thr[t].val)

RECURSIVE SerialRun(_, _)
SerialRun(st, order) ==
    IF order = <<>> THEN st
    ELSE LET res == CallResult(st, Head(order))
         IN  SerialRun([cache |-> res.cache, order |-> res.order,
                        exc |-> [st.exc EXCEPT ![Head(order)] = res.exc]],
                       Tail(order))

Callers == {t \in Threads : thr[t].op # None}

SerialOrders ==
    {p \in [1..Cardinality(Callers) -> Callers] :
        \A i, j \in 1..Cardinality(Callers) : i # j => p[i] # p[j]}

SerialOutcomes ==
    {SerialRun([cache |-> base.cache, order |-> base.order,
                exc |-> [t \in Threads |-> None]], p) : p \in SerialOrders}

(***************************************************************************)
(* C3: get/put/eviction is atomic with respect to concurrent callers: once *)
(* the concurrent calls have returned, none has raised and the cache       *)
(* contents and recency order are those of some serial order of the calls. *)
(* This is the claim as stated; the code, which takes no lock, violates it.*)
(***************************************************************************)
C3_AtomicGetPut ==
    Quiet =>
        /\ \A t \in Threads : thr[t].exc = None
        /\ \E out \in SerialOutcomes : out.cache = cache /\ out.order = access_order

(***************************************************************************)
(* The part of C3 that does not depend on calls raising: the outcome,      *)
(* exceptions included, is that of some serial order of the same calls.    *)
(***************************************************************************)
C3_SerialEquivalent ==
    Quiet =>
        \E out \in SerialOutcomes :
            /\ out.cache = cache
            /\ out.order = access_order
            /\ \A t \in Threads : out.exc[t] = thr[t].exc

(***************************************************************************)
(* The ingestion service.                                                  *)
(***************************************************************************)
MaxTasks == 2
MaxTextLen == 1

DocIds == 1..MaxTasks

Chars == {" ", "x"}

RECURSIVE SeqsUpTo(_)
SeqsUpTo(n) ==
    IF n = 0 THEN {<<>>}
    ELSE LET shorter == SeqsUpTo(n - 1)
         IN  shorter \cup {Append(s, c) : s \in shorter, c \in Chars}

RawTexts == SeqsUpTo(MaxTextLen)

(***************************************************************************)
(* str.strip(): the text without its leading and trailing whitespace.      *)
(***************************************************************************)
RECURSIVE LStrip(_)
LStrip(s) == IF s # <<>> /\ Head(s) = " " THEN LStrip(Tail(s)) ELSE s

RECURSIVE RStrip(_)
RStrip(s) ==
    IF s # <<>> /\ s[Len(s)] = " " THEN RStrip(SubSeq(s, 1, Len(s) - 1)) ELSE s

Strip(s) == RStrip(LStrip(s))

(***************************************************************************)
(* RecursiveCharacterTextSplitter.split_text is a library call: all that   *)
(* the model takes from it is that the chunks are pieces of the text, in   *)
(* order.  Every way of cutting the text into pieces is allowed.           *)
(***************************************************************************)
RECURSIVE Splits(_)
Splits(text) ==
    IF text = <<>> THEN {<<>>}
    ELSE UNION {{<<SubSeq(text, 1, i)>> \o rest :
                    rest \in Splits(SubSeq(text, i + 1, Len(text)))} :
                i \in 1..Len(text)}

IntId(i) == [kind |-> "int", v |-> i]

(***************************************************************************)
(* PDFProcessor.process_pdf: the metadata every chunk of the document      *)
(* starts from.  The file's name, path and size are those of the upload.   *)
(***************************************************************************)
PdfMetadata(document_id, text) ==
    [document_id |-> document_id,
     filename |-> "upload.pdf",
     file_path |-> "uploads/upload.pdf",
     file_size |-> Len(text) + 1,
     text_length |-> Len(text)]

UuidId(n) == [kind |-> "uuid", v |-> n]

(***************************************************************************)
(* PDFProcessor.create_chunks after its emptiness test: one Document per   *)
(* chunk that is not blank, with the chunk's position among all chunks.    *)
(***************************************************************************)
RECURSIVE ChunkDocuments(_, _, _, _)
ChunkDocuments(chunks, i, total, metadata) ==
    IF i > Len(chunks) THEN <<>>
    ELSE (IF Strip(chunks[i]) # <<>>
          THEN <<[page_content |-> Strip(chunks[i]),
                  metadata |-> DictSet(DictSet(DictSet(metadata,
                                  "chunk_id", IntId(i - 1)),
                                  "chunk_size", Len(chunks[i])),
                                  "total_chunks", total)]>>
          ELSE <<>>)
         \o ChunkDocuments(chunks, i + 1, total, metadata)

create_chunks(chunks, metadata) == ChunkDocuments(chunks, 1, Len(chunks), metadata)

(***************************************************************************)
(* EmbeddingService.encode_documents: one embedding per document, in       *)
(* order.  The vector is the sentence-transformers model's: all the model  *)
(* takes from it is that it depends on the text alone and has the          *)
(* embedder's dimension.                                                   *)
(***************************************************************************)
Vectors == {<<1, 0>>, <<0, 1>>, <<-1, 0>>}

Embed(text) == IF Len(text) % 2 = 1 THEN <<1, 0>> ELSE <<0, 1>>

encode_documents(documents) ==
    [i \in 1..Len(documents) |-> Embed(documents[i].page_content)]

(***************************************************************************)
(* VectorStore.add_documents: the records collection.add receives, each    *)
(* with a fresh uuid that also replaces the metadata's chunk_id.           *)
(***************************************************************************)
NewRecordsSameText(documents, embeddings, first) ==
    [i \in 1..Len(documents) |->
        [id |-> UuidId(first + i),
         content |-> documents[1].page_content,
         embedding |-> embeddings[i],
         metadata |-> [documents[i].metadata EXCEPT !.chunk_id = UuidId(first + i)]]]

NewRecords(documents, embeddings, first) ==
    [i \in 1..Len(documents) |->
        [id |-> UuidId(first + i),
         content |-> documents[i].page_content,
         embedding |-> embeddings[i],
         metadata |-> [documents[i].metadata EXCEPT !.chunk_id = UuidId(first + i)]]]

RecordsOf(d) == SelectSeq(collection, LAMBDA r : r.metadata.document_id = d)

(***************************************************************************)
(* VectorStore.list_documents: one pass over the metadata of all records,  *)
(* which opens an entry at the first record of a document_id and counts    *)
(* every record of it.  A record whose document_id is falsy (0 here, where  *)
(* document ids are positive numbers) is skipped.                          *)
(***************************************************************************)
Falsy(v) == v = 0

EntryIndex(documents, doc_id) ==
    IF \E i \in 1..Len(documents) : documents[i].document_id = doc_id
    THEN CHOOSE i \in 1..Len(documents) : documents[i].document_id = doc_id
    ELSE 0

RECURSIVE CountInto(_, _, _)
CountInto(documents, records, i) ==
    IF i > Len(records) THEN documents
    ELSE LET metadata == records[i].metadata
             doc_id == metadata.document_id
             opened ==
                IF ~Falsy(doc_id) /\ EntryIndex(documents, doc_id) = 0
                THEN Append(documents, [document_id |-> doc_id,
                                        filename |-> metadata.filename,
                                        chunk_count |-> 0,
                                        file_size |-> metadata.file_size,
                                        text_length |-> metadata.text_length])
                ELSE documents
             counted ==
                IF ~Falsy(doc_id)
                THEN [opened EXCEPT ![EntryIndex(opened, doc_id)].chunk_count = @ + 1]
                ELSE opened
         IN  CountInto(counted, records, i + 1)

ListUngrouped(records) ==
    [i \in 1..Len(records) |->
        [document_id |-> records[i].metadata.document_id,
         filename |-> records[i].metadata.filename,
         chunk_count |-> 1,
         file_size |-> records[i].metadata.file_size,
         text_length |-> records[i].metadata.text_length]]

list_documents(records) == CountInto(<<>>, records, 1)

StoreDocuments ==
    {[document_id |-> doc.document_id, chunk_count |-> doc.chunk_count] :
        doc \in {list_documents(collection)[i] : i \in 1..Len(list_documents(collection))}}

NoExc == [kind |-> None, msg |-> None]

Raise(kind, msg) == [kind |-> kind, msg |-> msg]

(***************************************************************************)
(* The classes `except Exception` catches, among those the pipeline raises.*)
(***************************************************************************)
CaughtByExceptException(kind) == kind \in {"ValueError", "Exception"}

NewTask(d) == [doc |-> d, pc |-> "queued", text |-> <<>>, documents |-> <<>>,
               embeddings |-> <<>>, exc |-> NoExc, trace |-> <<>>,
               blank |-> FALSE, escaped |-> FALSE]

TaskIds == 1..Len(tasks)

InFlight(t) == tasks[t].pc # "finished"

IngestionInFlight(d) == \E t \in TaskIds : tasks[t].doc = d /\ InFlight(t)

(***************************************************************************)
(* The records process_and_store_pdf writes to documents_metadata.         *)
(***************************************************************************)
CompletedRecord(task) ==
    [status |-> "completed", chunk_count |-> Len(task.documents), error_message |-> None]

FailedRecordGeneric(exc) ==
    [status |-> "failed", chunk_count |-> 0, error_message |-> "Processing failed"]

FailedRecordNoMessage(exc) ==
    [status |-> "failed", chunk_count |-> 0, error_message |-> None]

FailedRecord(exc) ==
    [status |-> "failed", chunk_count |-> 0, error_message |-> exc.msg]

(***************************************************************************)
(* upload_pdf draws uuid.uuid4() for the document: an id never used before.*)
(***************************************************************************)
UsedIds == {tasks[t].doc : t \in TaskIds}

ReusedDocumentId == CHOOSE d \in DocIds : \A e \in DocIds : d <= e

FreshDocumentId ==
    IF DocIds \ UsedIds = {} THEN 0
    ELSE CHOOSE d \in DocIds \ UsedIds : \A e \in DocIds \ UsedIds : d <= e

Goto(t, step, pc) == [tasks EXCEPT ![t].pc = pc, ![t].trace = Append(@, step)]

Except(t, exc) == [tasks EXCEPT ![t].pc = "except", ![t].exc = exc]

(***************************************************************************)
(* POST /upload-pdf.  The file is refused (400), cannot be saved (500), or *)
(* is saved and its processing added as a background task (200).          *)
(***************************************************************************)
UploadPdf ==
    /\ running = 0
    /\ \E outcome \in {"accepted", "invalid", "unsaved"} :
          IF outcome = "accepted"
          THEN /\ Len(tasks) < MaxTasks
               /\ FreshDocumentId \in DocIds
               /\ tasks' = Append(tasks, NewTask(FreshDocumentId))
               /\ response' = [NoResponse EXCEPT !.op = "upload", !.doc = FreshDocumentId,
                                                 !.code = 200, !.status = "processing"]
          ELSE /\ tasks' = tasks
               /\ response' = [NoResponse EXCEPT !.op = "upload",
                                  !.code = IF outcome = "invalid" THEN 400 ELSE 500]
    /\ UNCHANGED <<documents_metadata, collection, running, uuids, deleted,
                   cacheVars, concVars, queryVars>>

(***************************************************************************)
(* GET /documents/{document_id}.                                           *)
(***************************************************************************)
GetDocument(d) ==
    /\ running = 0
    /\ response' =
          IF d \in DOMAIN documents_metadata
          THEN [NoResponse EXCEPT !.op = "get", !.doc = d, !.code = 200,
                                  !.status = documents_metadata[d].status,
                                  !.in_flight = IngestionInFlight(d)]
          ELSE [NoResponse EXCEPT !.op = "get", !.doc = d, !.code = 404,
                                  !.in_flight = IngestionInFlight(d)]
    /\ UNCHANGED <<documents_metadata, collection, tasks, running, uuids, deleted,
                   cacheVars, concVars, queryVars>>

(***************************************************************************)
(* GET /documents: RAGService.list_documents over the store's documents.   *)
(***************************************************************************)
ListedDocuments ==
    {[document_id |-> doc.document_id,
      chunk_count |-> doc.chunk_count,
      status |-> IF doc.document_id \in DOMAIN documents_metadata
                 THEN documents_metadata[doc.document_id].status
                 ELSE "unknown"] : doc \in StoreDocuments}

ListDocuments ==
    /\ running = 0
    /\ response' = [NoResponse EXCEPT !.op = "list", !.code = 200, !.docs = ListedDocuments]
    /\ UNCHANGED <<documents_metadata, collection, tasks, running, uuids, deleted,
                   cacheVars, concVars, queryVars>>

(***************************************************************************)
(* DELETE /documents/{document_id}: RAGService.delete_document.  The       *)
(* store's delete may raise; the service then returns False and leaves the *)
(* tracked record alone.                                                   *)
(***************************************************************************)
DeleteDocumentKeepsMetadata(d) ==
    /\ running = 0
    /\ \E store_ok \in BOOLEAN :
          IF store_ok
          THEN /\ collection' = SelectSeq(collection, LAMBDA r : r.metadata.document_id # d)
               /\ UNCHANGED <<documents_metadata, deleted>>
               /\ response' = [NoResponse EXCEPT !.op = "delete", !.doc = d,
                                  !.code = IF RecordsOf(d) # <<>> THEN 200 ELSE 404]
          ELSE /\ UNCHANGED <<collection, documents_metadata, deleted>>
               /\ response' = [NoResponse EXCEPT !.op = "delete", !.doc = d, !.code = 404,
                                                 !.raised = TRUE]
    /\ UNCHANGED <<tasks, running, uuids, cacheVars, concVars, queryVars>>

DeleteDocumentKeepsRecords(d) ==
    /\ running = 0
    /\ documents_metadata' = DictDel(documents_metadata, d)
    /\ deleted' = IF d \in DOMAIN documents_metadata THEN deleted \cup {d} ELSE deleted
    /\ response' = [NoResponse EXCEPT !.op = "delete", !.doc = d,
                       !.code = IF RecordsOf(d) # <<>> THEN 200 ELSE 404]
    /\ UNCHANGED <<collection, tasks, running, uuids, cacheVars, concVars, queryVars>>

DeleteDocument(d) ==
    /\ running = 0
    /\ \E store_ok \in BOOLEAN :
          IF store_ok
          THEN /\ collection' = SelectSeq(collection, LAMBDA r : r.metadata.document_id # d)
               /\ documents_metadata' = DictDel(documents_metadata, d)
               /\ deleted' = IF d \in DOMAIN documents_metadata
                             THEN deleted \cup {d} ELSE deleted
               /\ response' = [NoResponse EXCEPT !.op = "delete", !.doc = d,
                                  !.code = IF RecordsOf(d) # <<>> THEN 200 ELSE 404]
          ELSE /\ UNCHANGED <<collection, documents_metadata, deleted>>
               /\ response' = [NoResponse EXCEPT !.op = "delete", !.doc = d, !.code = 404,
                                                 !.raised = TRUE]
    /\ UNCHANGED <<tasks, running, uuids, cacheVars, concVars, queryVars>>

(***************************************************************************)
(* The background task process_pdf_background -> process_and_store_pdf.    *)
(* None of its awaits suspends, so the event loop runs no handler and no   *)
(* other task between its steps: `running` holds it from its first step    *)
(* to its last.  A step sends no HTTP response: `response` is that of the  *)
(* handler that has just run, and none after a step of a task.             *)
(***************************************************************************)
TaskValidate(t) ==
    /\ running = 0
    /\ tasks[t].pc = "queued"
    /\ running' = t
    /\ \E valid \in BOOLEAN :
          tasks' = IF valid THEN Goto(t, "validate", "extract")
                   ELSE Except(t, Raise("ValueError", "Invalid PDF file"))
    /\ response' = NoResponse
    /\ UNCHANGED <<documents_metadata, collection, uuids, deleted,
                   cacheVars, concVars, queryVars>>

TaskExtract(t) ==
    /\ running = t
    /\ tasks[t].pc = "extract"
    /\ \E raises \in BOOLEAN, raw \in RawTexts :
          tasks' =
             IF raises
             THEN Except(t, Raise("Exception", "extraction failed"))
             ELSE IF Strip(Strip(raw)) = <<>>
                  THEN [Except(t, Raise("ValueError", "No text could be extracted from PDF"))
                           EXCEPT ![t].blank = TRUE]
                  ELSE [Goto(t, "extract", "chunk") EXCEPT ![t].text = Strip(raw)]
    /\ response' = NoResponse
    /\ UNCHANGED <<documents_metadata, collection, running, uuids, deleted,
                   cacheVars, concVars, queryVars>>

TaskChunk(t) ==
    /\ running = t
    /\ tasks[t].pc = "chunk"
    /\ \E chunks \in Splits(tasks[t].text) :
          LET metadata == PdfMetadata(tasks[t].doc, tasks[t].text)
              documents == create_chunks(chunks, metadata)
          IN  tasks' =
                 IF Strip(tasks[t].text) = <<>>
                 THEN Except(t, Raise("ValueError", "Empty text provided for chunking"))
                 ELSE IF documents = <<>>
                      THEN Except(t, Raise("ValueError", "No text could be extracted from PDF"))
                      ELSE [Goto(t, "chunk", "embed") EXCEPT ![t].documents = documents]
    /\ response' = NoResponse
    /\ UNCHANGED <<documents_metadata, collection, running, uuids, deleted,
                   cacheVars, concVars, queryVars>>

TaskEmbed(t) ==
    /\ running = t
    /\ tasks[t].pc = "embed"
    /\ \E raises \in BOOLEAN :
          tasks' =
             IF raises
             THEN Except(t, Raise("Exception", "encoding failed"))
             ELSE [Goto(t, "embed", "store") EXCEPT ![t].embeddings = encode_documents(tasks[t].documents)]
    /\ response' = NoResponse
    /\ UNCHANGED <<documents_metadata, collection, running, uuids, deleted,
                   cacheVars, concVars, queryVars>>

TaskStoreUnchecked(t) ==
    /\ running = t
    /\ tasks[t].pc = "store"
    /\ \E raises \in BOOLEAN :
          /\ tasks' = Goto(t, "insert", "mark")
          /\ IF raises
             THEN UNCHANGED <<collection, uuids>>
             ELSE /\ collection' = collection \o
                        NewRecords(tasks[t].documents, tasks[t].embeddings, uuids)
                  /\ uuids' = uuids + Len(tasks[t].documents)
    /\ response' = NoResponse
    /\ UNCHANGED <<documents_metadata, running, deleted, cacheVars, concVars, queryVars>>

TaskStorePartial(t) ==
    /\ running = t
    /\ tasks[t].pc = "store"
    /\ \E raises \in BOOLEAN :
          IF Len(tasks[t].documents) # Len(tasks[t].embeddings)
          THEN /\ tasks' = Except(t, Raise("ValueError",
                                "Number of documents must match number of embeddings"))
               /\ UNCHANGED <<collection, uuids>>
          ELSE /\ tasks' = IF raises
                           THEN Except(t, Raise("Exception", "collection add failed"))
                           ELSE Goto(t, "insert", "mark")
               /\ collection' = collection \o
                     NewRecords(tasks[t].documents, tasks[t].embeddings, uuids)
               /\ uuids' = uuids + Len(tasks[t].documents)
    /\ response' = NoResponse
    /\ UNCHANGED <<documents_metadata, running, deleted, cacheVars, concVars, queryVars>>

TaskStore(t) ==
    /\ running = t
    /\ tasks[t].pc = "store"
    /\ \E raises \in BOOLEAN :
          IF Len(tasks[t].documents) # Len(tasks[t].embeddings)
          THEN /\ tasks' = Except(t, Raise("ValueError",
                                "Number of documents must match number of embeddings"))
               /\ UNCHANGED <<collection, uuids>>
          ELSE IF raises
               THEN /\ tasks' = Except(t, Raise("Exception", "collection add failed"))
                    /\ UNCHANGED <<collection, uuids>>
               ELSE /\ tasks' = Goto(t, "insert", "mark")
                    /\ collection' = collection \o
                          NewRecords(tasks[t].documents, tasks[t].embeddings, uuids)
                    /\ uuids' = uuids + Len(tasks[t].documents)
    /\ response' = NoResponse
    /\ UNCHANGED <<documents_metadata, running, deleted, cacheVars, concVars, queryVars>>

Finished(task) == [task EXCEPT !.pc = "finished", !.text = <<>>, !.documents = <<>>,
                               !.embeddings = <<>>]

TaskComplete(t) ==
    /\ running = t
    /\ tasks[t].pc = "mark"
    /\ documents_metadata' = DictSet(documents_metadata, tasks[t].doc, CompletedRecord(tasks[t]))
    /\ tasks' = [tasks EXCEPT ![t] = Finished([@ EXCEPT !.trace = Append(@, "completed")])]
    /\ running' = 0
    /\ response' = NoResponse
    /\ UNCHANGED <<collection, uuids, deleted, cacheVars, concVars, queryVars>>

(***************************************************************************)
(* The except block of process_and_store_pdf, its raise, and the except    *)
(* block of process_pdf_background that receives it.                       *)
(***************************************************************************)
TaskFailUnrecorded(t) ==
    /\ running = t
    /\ tasks[t].pc = "except"
    /\ tasks' = [tasks EXCEPT ![t] = Finished(@)]
    /\ running' = 0
    /\ response' = NoResponse
    /\ UNCHANGED <<documents_metadata, collection, uuids, deleted,
                   cacheVars, concVars, queryVars>>

TaskFail(t) ==
    /\ running = t
    /\ tasks[t].pc = "except"
    /\ documents_metadata' = DictSet(documents_metadata, tasks[t].doc, FailedRecord(tasks[t].exc))
    /\ tasks' = [tasks EXCEPT ![t] =
                    Finished([tasks[t] EXCEPT
                                 !.escaped = ~CaughtByExceptException(tasks[t].exc.kind)])]
    /\ running' = 0
    /\ response' = NoResponse
    /\ UNCHANGED <<collection, uuids, deleted, cacheVars, concVars, queryVars>>

TaskStep(t) ==
    \/ TaskValidate(t)
    \/ TaskExtract(t)
    \/ TaskChunk(t)
    \/ TaskEmbed(t)
    \/ TaskStore(t)
    \/ TaskComplete(t)
    \/ TaskFail(t)

Init == InitCacheOf({MaxCap}) /\ InitService

Next ==
    \/ UploadPdf
    \/ \E d \in DocIds : GetDocument(d)
    \/ ListDocuments
    \/ \E d \in DocIds : DeleteDocument(d)
    \/ \E t \in TaskIds : TaskValidate(t)
    \/ \E t \in TaskIds : TaskExtract(t)
    \/ \E t \in TaskIds : TaskChunk(t)
    \/ \E t \in TaskIds : TaskEmbed(t)
    \/ \E t \in TaskIds : TaskStore(t)
    \/ \E t \in TaskIds : TaskComplete(t)
    \/ \E t \in TaskIds : TaskFail(t)

Spec == Init /\ [][Next]_vars

(***************************************************************************)
(* The event loop runs every background task that was added, and each of   *)
(* the task's steps returns.                                               *)
(***************************************************************************)
TaskStepOf(t) == t \in TaskIds /\ TaskStep(t)

LiveSpec == Spec /\ \A t \in 1..MaxTasks : WF_vars(TaskStepOf(t))

(***************************************************************************)
(* RAGService.process_and_store_pdf takes the document_id from its caller  *)
(* and tests nothing about it: a caller other than upload_pdf can start an *)
(* ingestion for an id that is already being ingested.                     *)
(***************************************************************************)
IngestCall(d) ==
    /\ running = 0
    /\ Len(tasks) < MaxTasks
    /\ tasks' = Append(tasks, NewTask(d))
    /\ response' = NoResponse
    /\ UNCHANGED <<documents_metadata, collection, running, uuids, deleted,
                   cacheVars, concVars, queryVars>>

NextService ==
    \/ Next
    \/ \E d \in DocIds : IngestCall(d)

SpecService == Init /\ [][NextService]_vars

Terminal == {"completed", "failed"}

Tracked(d) == d \in DOMAIN documents_metadata

(***************************************************************************)
(* C4: once the tracked status of a document is completed or failed, no    *)
(* operation changes it to another status; the only later change is the    *)
(* removal of the whole record by delete_document.                         *)
(***************************************************************************)
C4_TerminalStatusIsFinal ==
    [][\A d \in DocIds :
          (Tracked(d) /\ documents_metadata[d].status \in Terminal) =>
              IF d \in DOMAIN documents_metadata'
              THEN documents_metadata'[d].status = documents_metadata[d].status
              ELSE response'.op = "delete" /\ response'.doc = d]_vars

C4_Witness ==
    \E d, e \in DocIds :
        /\ Tracked(d)
        /\ documents_metadata[d].status = "completed"
        /\ e \in deleted
        /\ response.op = "get" /\ response.doc = d /\ response.status = "completed"
        /\ \A t \in TaskIds : ~InFlight(t)
        /\ Len(tasks) = MaxTasks

(***************************************************************************)
(* C5: get_document(id) issued while the ingestion of id is in flight      *)
(* returns the document with status processing, never not-found.           *)
(* This is the claim as stated; the code violates it.                      *)
(***************************************************************************)
C5_ProcessingRecordVisible ==
    (response.op = "get" /\ response.in_flight)
        => (response.code = 200 /\ response.status = "processing")

(***************************************************************************)
(* C6: a failure at any ingestion step ends with the tracked record failed *)
(* and error_message equal to the text of the causing error, and the       *)
(* error does not escape the background task.                              *)
(***************************************************************************)
C6_FailureRecorded ==
    \A t \in TaskIds :
        (tasks[t].pc = "finished" /\ tasks[t].exc # NoExc) =>
            /\ ~tasks[t].escaped
            /\ IF Tracked(tasks[t].doc)
               THEN /\ documents_metadata[tasks[t].doc].status = "failed"
                    /\ documents_metadata[tasks[t].doc].error_message = tasks[t].exc.msg
               ELSE tasks[t].doc \in deleted

C6_Witness ==
    \E t, u \in TaskIds :
        /\ tasks[t].pc = "finished" /\ tasks[u].pc = "finished"
        /\ tasks[t].exc.msg = "Invalid PDF file"
        /\ tasks[u].exc.msg = "collection add failed"
        /\ Tracked(tasks[t].doc) /\ Tracked(tasks[u].doc)
        /\ documents_metadata[tasks[u].doc].error_message = "collection add failed"

(***************************************************************************)
(* C7: ingesting a document whose extracted text is empty or whitespace    *)
(* only ends with status failed and an error_message that is set, inserts  *)
(* no records, and the document is never in the store's enumeration nor in *)
(* list_documents.                                                         *)
(***************************************************************************)
C7_BlankTextFails ==
    \A t \in TaskIds :
        tasks[t].blank =>
            /\ tasks[t].pc \in {"except", "finished"}
            /\ RecordsOf(tasks[t].doc) = <<>>
            /\ \A doc \in StoreDocuments : doc.document_id # tasks[t].doc
            /\ \A doc \in ListedDocuments : doc.document_id # tasks[t].doc
            /\ tasks[t].pc = "finished" =>
                  IF Tracked(tasks[t].doc)
                  THEN /\ documents_metadata[tasks[t].doc].status = "failed"
                       /\ documents_metadata[tasks[t].doc].error_message # None
                  ELSE tasks[t].doc \in deleted

C7_Witness ==
    \E t \in TaskIds :
        /\ tasks[t].blank
        /\ tasks[t].pc = "finished"
        /\ Tracked(tasks[t].doc)
        /\ response.op = "list"
        /\ response.docs # {}

(***************************************************************************)
(* C8: a document is completed only after validation, extraction, chunking *)
(* with at least one chunk, one embedding per chunk and the batch insert,  *)
(* in this order; no document is completed before its records are stored.  *)
(***************************************************************************)
PipelineOrder == <<"validate", "extract", "chunk", "embed", "insert", "completed">>

C8_CompletedAfterInsert ==
    /\ \A d \in DOMAIN documents_metadata :
          documents_metadata[d].status = "completed" =>
              /\ \E t \in TaskIds : /\ tasks[t].doc = d
                                     /\ tasks[t].pc = "finished"
                                     /\ tasks[t].trace = PipelineOrder
              /\ documents_metadata[d].chunk_count >= 1
              /\ Len(RecordsOf(d)) = documents_metadata[d].chunk_count
    /\ \A t \in TaskIds :
          tasks[t].pc = "mark" =>
              /\ tasks[t].trace = SubSeq(PipelineOrder, 1, 5)
              /\ Len(tasks[t].documents) >= 1
              /\ Len(tasks[t].embeddings) = Len(tasks[t].documents)
              /\ Len(RecordsOf(tasks[t].doc)) = Len(tasks[t].documents)

C8_Witness ==
    \E d \in DOMAIN documents_metadata :
        /\ documents_metadata[d].status = "completed"
        /\ documents_metadata[d].chunk_count >= 1
        /\ Len(RecordsOf(d)) = documents_metadata[d].chunk_count
        /\ response.op = "list"
        /\ \E doc \in response.docs : doc.document_id = d /\ doc.status = "completed"

(***************************************************************************)
(* C9: a second ingestion started for a document_id while an earlier one   *)
(* of the same id is still in flight is rejected, so at most one ingestion *)
(* is in flight per document_id.                                           *)
(* This is the claim as stated; the code violates it.                      *)
(***************************************************************************)
C9_OneIngestionPerDocument ==
    \A t, u \in TaskIds :
        (InFlight(t) /\ InFlight(u) /\ tasks[t].doc = tasks[u].doc) => t = u

(***************************************************************************)
(* C10: every accepted upload eventually resolves: the tracked status of   *)
(* an uploaded document eventually is completed or failed.                 *)
(***************************************************************************)
C10_UploadResolves ==
    \A d \in DocIds :
        IngestionInFlight(d)
            ~> (Tracked(d) /\ documents_metadata[d].status \in Terminal)

C10_Witness ==
    \E d \in DocIds :
        /\ ~IngestionInFlight(d)
        /\ Tracked(d)
        /\ documents_metadata[d].status \in Terminal
        /\ response.op = "get" /\ response.doc = d /\ response.code = 200
        /\ ~response.in_flight

(***************************************************************************)
(* C11: after a delete_document(id) that the store carried out, no record  *)
(* of id is left: get_documents_by_id(id) is empty, neither enumeration    *)
(* lists id and get_document(id) reports not-found; only a later ingestion *)
(* of id brings any of them back.                                          *)
(***************************************************************************)
NoTraceOf(d) ==
    /\ RecordsOf(d) = <<>>
    /\ \A doc \in StoreDocuments : doc.document_id # d
    /\ \A doc \in ListedDocuments : doc.document_id # d
    /\ ~Tracked(d)

MaxBatch == 2
MaxRecords == 3
MaxK == 2

(***************************************************************************)
(* Two documents share the store: one a filter names and one it excludes.  *)
(***************************************************************************)
StoreIds == {1, 2}

(***************************************************************************)
(* The documents the store is given: document d is split into n chunks,    *)
(* the i-th chunk being i characters long, so that the chunks of one batch *)
(* differ from each other.                                                 *)
(***************************************************************************)
ChunksOf(n) == [i \in 1..n |-> [j \in 1..i |-> "x"]]

ShortVector == <<1>>

(***************************************************************************)
(* The collection's distance: chromadb's default space, the squared L2     *)
(* distance of the two vectors.                                            *)
(***************************************************************************)
RECURSIVE SquaredL2(_, _)
SquaredL2(a, b) ==
    IF a = <<>> THEN 0
    ELSE (Head(a) - Head(b)) * (Head(a) - Head(b)) + SquaredL2(Tail(a), Tail(b))

(***************************************************************************)
(* collection.add is one call of the library for the whole batch: it       *)
(* refuses an empty batch and a batch with a vector that is not of the     *)
(* collection's dimension, and it may fail; it then adds nothing.          *)
(***************************************************************************)
CollectionAddRefuses(embeddings) ==
    \/ embeddings = <<>>
    \/ \E i \in 1..Len(embeddings) : Len(embeddings[i]) # Len(Embed(<<>>))

(***************************************************************************)
(* VectorStore.add_documents(documents, embeddings) on the records         *)
(* `records`, when `drawn` uuids were drawn before.                        *)
(***************************************************************************)
AddOneByOne(records, drawn, documents, embeddings, fails) ==
    IF Len(documents) # Len(embeddings)
    THEN [collection |-> records, uuids |-> drawn, exc |-> "ValueError"]
    ELSE IF CollectionAddRefuses(embeddings) \/ fails
         THEN LET good == IF \E i \in 1..Len(embeddings) : Len(embeddings[i]) # Len(Embed(<<>>))
                          THEN (CHOOSE i \in 1..Len(embeddings) :
                                   /\ Len(embeddings[i]) # Len(Embed(<<>>))
                                   /\ \A j \in 1..(i - 1) :
                                         Len(embeddings[j]) = Len(Embed(<<>>))) - 1
                          ELSE 0
              IN  [collection |-> records \o
                       NewRecords(SubSeq(documents, 1, good), embeddings, drawn),
                   uuids |-> drawn + good, exc |-> "Exception"]
         ELSE [collection |-> records \o NewRecords(documents, embeddings, drawn),
               uuids |-> drawn + Len(documents), exc |-> None]

add_documents(records, drawn, documents, embeddings, fails) ==
    IF Len(documents) # Len(embeddings)
    THEN [collection |-> records, uuids |-> drawn, exc |-> "ValueError"]
    ELSE IF CollectionAddRefuses(embeddings) \/ fails
         THEN [collection |-> records, uuids |-> drawn, exc |-> "Exception"]
         ELSE [collection |-> records \o NewRecords(documents, embeddings, drawn),
               uuids |-> drawn + Len(documents), exc |-> None]

(***************************************************************************)
(* VectorStore.get_documents_by_id: collection.get(where document_id).     *)
(***************************************************************************)
get_documents_by_id(records, document_id) ==
    LET found == SelectSeq(records, LAMBDA r : r.metadata.document_id = document_id)
    IN  [i \in 1..Len(found) |->
            [id |-> found[i].id, content |-> found[i].content,
             metadata |-> found[i].metadata]]

(***************************************************************************)
(* collection.query: the n_results nearest records among those the where   *)
(* clause keeps, nearest first, earlier records first among equals.        *)
(***************************************************************************)
RECURSIVE NearestFirst(_, _)
NearestFirst(records, query_embedding) ==
    IF records = <<>> THEN <<>>
    ELSE LET D(i) == SquaredL2(query_embedding, records[i].embedding)
             best == CHOOSE i \in 1..Len(records) :
                        \A j \in 1..Len(records) :
                            D(i) < D(j) \/ (D(i) = D(j) /\ i <= j)
             rest == [j \in 1..(Len(records) - 1) |->
                         IF j < best THEN records[j] ELSE records[j + 1]]
         IN  <<records[best]>> \o NearestFirst(rest, query_embedding)

SearchUnfiltered(records, query_embedding, k, document_id) ==
    LET ranked == NearestFirst(records, query_embedding)
        found == SubSeq(ranked, 1, IF k < Len(ranked) THEN k ELSE Len(ranked))
    IN  [i \in 1..Len(found) |->
            [id |-> found[i].id, content |-> found[i].content,
             metadata |-> found[i].metadata,
             distance |-> SquaredL2(query_embedding, found[i].embedding)]]

similarity_search(records, query_embedding, k, document_id) ==
    LET candidates ==
            IF ~Falsy(document_id)
            THEN SelectSeq(records, LAMBDA r : r.metadata.document_id = document_id)
            ELSE records
        ranked == NearestFirst(candidates, query_embedding)
        found == SubSeq(ranked, 1, IF k < Len(ranked) THEN k ELSE Len(ranked))
    IN  [i \in 1..Len(found) |->
            [id |-> found[i].id, content |-> found[i].content,
             metadata |-> found[i].metadata,
             distance |-> SquaredL2(query_embedding, found[i].embedding)]]

(***************************************************************************)
(* The calls of the store.  add_documents is given the chunks of one       *)
(* document, as ingestion gives them, with their embeddings or with a      *)
(* list of embeddings that is too short, too long or of a wrong dimension. *)
(***************************************************************************)
EmbeddingLists(documents) ==
    LET right == encode_documents(documents)
    IN  {right, Append(right, Embed(<<>>))}
        \cup (IF right = <<>> THEN {}
              ELSE {SubSeq(right, 1, Len(right) - 1),
                    [right EXCEPT ![Len(right)] = ShortVector]})

RECURSIVE Concat(_)
Concat(chunks) == IF chunks = <<>> THEN <<>> ELSE Head(chunks) \o Concat(Tail(chunks))

AddDocuments ==
    \E d \in StoreIds, n \in 0..MaxBatch, fails \in BOOLEAN :
        LET chunks == ChunksOf(n)
            documents == create_chunks(chunks, PdfMetadata(d, Concat(chunks)))
        IN  \E embeddings \in EmbeddingLists(documents) :
              LET res == add_documents(collection, uuids, documents, embeddings, fails)
              IN  /\ uuids + Len(documents) <= MaxRecords
                  /\ collection' = res.collection
                  /\ uuids' = res.uuids
                  /\ call' = IF res.exc = None
                             THEN [op |-> "add_documents", exc |-> None,
                                   document_id |-> d, documents |-> documents,
                                   before |-> get_documents_by_id(collection, d)]
                             ELSE [op |-> "add_documents", exc |-> res.exc,
                                   document_id |-> d]
                  /\ UNCHANGED <<documents_metadata, tasks, running, response, deleted,
                                 cacheVars, concVars>>

GetDocumentsById ==
    \E d \in StoreIds :
        /\ call' = [op |-> "get_documents_by_id", exc |-> None, document_id |-> d,
                    results |-> get_documents_by_id(collection, d)]
        /\ UNCHANGED <<serviceVars, cacheVars, concVars>>

SimilaritySearch ==
    \E query_embedding \in Vectors, k \in 1..MaxK, document_id \in {0} \cup StoreIds :
        /\ call' = [op |-> "similarity_search", exc |-> None,
                    document_id |-> document_id, k |-> k,
                    results |-> similarity_search(collection, query_embedding, k,
                                                  document_id)]
        /\ UNCHANGED <<serviceVars, cacheVars, concVars>>

(***************************************************************************)
(* VectorStore.delete_document: every record of the document is deleted in *)
(* one collection.delete, or the library raises and none is.               *)
(***************************************************************************)
StoreDeleteDocument ==
    \E d \in StoreIds, fails \in BOOLEAN :
        /\ collection' = IF fails THEN collection
                         ELSE SelectSeq(collection, LAMBDA r : r.metadata.document_id # d)
        /\ call' = [op |-> "delete_document", document_id |-> d,
                    exc |-> IF fails THEN "Exception" ELSE None,
                    returned |-> ~fails /\ get_documents_by_id(collection, d) # <<>>]
        /\ UNCHANGED <<documents_metadata, tasks, running, uuids, response, deleted,
                       cacheVars, concVars>>

StoreListDocuments ==
    /\ call' = [op |-> "list_documents", exc |-> None,
                results |-> list_documents(collection)]
    /\ UNCHANGED <<serviceVars, cacheVars, concVars>>

NextStore ==
    \/ AddDocuments
    \/ GetDocumentsById
    \/ SimilaritySearch
    \/ StoreDeleteDocument
    \/ StoreListDocuments

SpecStore == Init /\ [][NextStore]_vars

(***************************************************************************)
(* C12: after add_documents has inserted the N chunks of a document that   *)
(* had no records, get_documents_by_id of the document returns exactly N   *)
(* records and their contents are the N chunk texts that were inserted.    *)
(***************************************************************************)
C12_RoundTrip ==
    (call.op = "add_documents" /\ call.exc = None /\ call.before = <<>>) =>
        LET got == get_documents_by_id(collection, call.document_id)
        IN  /\ Len(got) = Len(call.documents)
            /\ \A i \in 1..Len(got) : got[i].content = call.documents[i].page_content

C12_Witness ==
    /\ call.op = "add_documents" /\ call.exc = None /\ call.before = <<>>
    /\ Len(call.documents) = MaxBatch
    /\ Len(collection) > Len(call.documents)

(***************************************************************************)
(* C13: add_documents is all or nothing.  A call that fails (the numbers   *)
(* of documents and embeddings differ, a vector is of the wrong dimension, *)
(* the store fails) leaves the store as it was; a call that succeeds adds  *)
(* every record of the batch, after the records the document had, and      *)
(* changes the records of no other document.                               *)
(***************************************************************************)
C13_BatchAllOrNothing ==
    [][call'.op = "add_documents" =>
          IF call'.exc # None
          THEN collection' = collection
          ELSE /\ Len(collection') = Len(collection) + Len(call'.documents)
               /\ LET got == get_documents_by_id(collection', call'.document_id)
                      had == Len(get_documents_by_id(collection, call'.document_id))
                  IN  /\ SubSeq(got, 1, had)
                            = get_documents_by_id(collection, call'.document_id)
                      /\ Len(got) = had + Len(call'.documents)
                      /\ \A i \in 1..Len(call'.documents) :
                            got[had + i].content = call'.documents[i].page_content
               /\ \A e \in StoreIds \ {call'.document_id} :
                     get_documents_by_id(collection', e)
                         = get_documents_by_id(collection, e)]_vars

C13_Witness ==
    /\ call.op = "add_documents" /\ call.exc = "Exception"
    /\ Len(collection) >= MaxBatch
    /\ get_documents_by_id(collection, call.document_id) # <<>>

(***************************************************************************)
(* C16: list_documents returns exactly one entry for each document_id that *)
(* has records, and the entry's chunk_count is the number of the records   *)
(* with that document_id.                                                  *)
(***************************************************************************)
C16_ListGroupsByDocument ==
    call.op = "list_documents" =>
        /\ \A d \in StoreIds :
              Cardinality({i \in 1..Len(call.results) : call.results[i].document_id = d})
                 = IF \E j \in 1..Len(collection) : collection[j].metadata.document_id = d
                   THEN 1 ELSE 0
        /\ \A i \in 1..Len(call.results) :
              /\ call.results[i].document_id \in StoreIds
              /\ call.results[i].chunk_count =
                    Cardinality({j \in 1..Len(collection) :
                        collection[j].metadata.document_id = call.results[i].document_id})

C16_Witness ==
    /\ call.op = "list_documents"
    /\ Len(call.results) >= 2
    /\ \E i \in 1..Len(call.results) : call.results[i].chunk_count >= 2

(***************************************************************************)
(* C15: every record stored by ingestion has metadata with document_id,    *)
(* filename, file_size, text_length and the chunk's 0-based sequence       *)
(* index, and the index the chunker assigned can be read from the stored   *)
(* record (under chunk_index, or under the chunker's own key chunk_id).    *)
(* This is the claim as stated; the code violates it.                      *)
(***************************************************************************)
C15_StoredMetadataHasIndex ==
    \A i \in 1..Len(collection) :
        LET metadata == collection[i].metadata
        IN  /\ {"document_id", "filename", "file_size", "text_length"}
                   \subseteq DOMAIN metadata
            /\ \E key \in {"chunk_index", "chunk_id"} \cap DOMAIN metadata :
                   metadata[key].kind = "int"

(***************************************************************************)
(* Question answering (RAGService.answer_question and its helpers).        *)
(* A text is the sequence of its words.  Lower and KeywordsIn are          *)
(* str.lower and the substring test `word in text` on the words of the     *)
(* model's vocabulary.                                                     *)
(***************************************************************************)
Lower(word) ==
    CASE word = "Who" -> "who"
      [] word = "SKILL" -> "skill"
      [] word = "Email" -> "email"
      [] word = "What" -> "what"
      [] OTHER -> word

Keywords == {"name", "who", "experience", "work", "job", "position",
             "skill", "technology", "technical",
             "education", "degree", "university", "college",
             "contact", "email", "phone", "address", "what", "how", "why"}

KeywordsIn(word) ==
    CASE word = "network" -> {"work"}
      [] word = "filename" -> {"name"}
      [] word \in Keywords -> {word}
      [] OTHER -> {}

HasAny(text, words) ==
    \E i \in 1..Len(text) : KeywordsIn(text[i]) \cap words # {}

Emails(content) ==
    SelectSeq(content, LAMBDA w : w \in {"jane.doe@example.com", "bob@example.org"})

Phones(content) == SelectSeq(content, LAMBDA w : w \in {"555-123-4567"})

(***************************************************************************)
(* sorted(chunks, key=similarity, reverse=True): the sort is stable, so    *)
(* chunks of equal similarity keep their order.                            *)
(***************************************************************************)
RECURSIVE SortedTiesLast(_)
SortedTiesLast(chunks) ==
    IF chunks = <<>> THEN <<>>
    ELSE LET best == CHOOSE i \in 1..Len(chunks) :
                        \A j \in 1..Len(chunks) :
                            \/ chunks[i].similarity > chunks[j].similarity
                            \/ chunks[i].similarity = chunks[j].similarity /\ i >= j
             rest == [j \in 1..(Len(chunks) - 1) |->
                         IF j < best THEN chunks[j] ELSE chunks[j + 1]]
         IN  <<chunks[best]>> \o SortedTiesLast(rest)

RECURSIVE SortedBySimilarity(_)
SortedBySimilarity(chunks) ==
    IF chunks = <<>> THEN <<>>
    ELSE LET best == CHOOSE i \in 1..Len(chunks) :
                        \A j \in 1..Len(chunks) :
                            \/ chunks[i].similarity > chunks[j].similarity
                            \/ chunks[i].similarity = chunks[j].similarity /\ i <= j
             rest == [j \in 1..(Len(chunks) - 1) |->
                         IF j < best THEN chunks[j] ELSE chunks[j + 1]]
         IN  <<chunks[best]>> \o SortedBySimilarity(rest)

RECURSIVE JoinContents(_)
JoinContents(chunks) ==
    IF chunks = <<>> THEN <<>>
    ELSE IF Len(chunks) = 1 THEN chunks[1].content
    ELSE chunks[1].content \o <<" ">> \o JoinContents(Tail(chunks))

(***************************************************************************)
(* RAGService._extract_contact_info: the first e-mail address and the      *)
(* first phone number of the content, or the content itself when it has    *)
(* neither.  (The contents of the model are shorter than the 200 and 300   *)
(* characters the fallback answers are cut at.)                            *)
(***************************************************************************)
extract_contact_info(content) ==
    IF Emails(content) # <<>> \/ Phones(content) # <<>>
    THEN [extractor |-> "contact", lead |-> "Contact information",
          email |-> IF Emails(content) # <<>> THEN Emails(content)[1] ELSE None,
          phone |-> IF Phones(content) # <<>> THEN Phones(content)[1] ELSE None,
          years |-> <<>>, found |-> <<>>,
          content |-> <<>>]
    ELSE [extractor |-> "contact", lead |-> "Contact details from document",
          email |-> None, phone |-> None, years |-> <<>>, found |-> <<>>, content |-> content]

(***************************************************************************)
(* The other extractors read these out of the content: the capitalised     *)
(* two-word names, the e-mail prefix as a title, the 4-digit years, the    *)
(* job keywords and the technology keywords.  re.findall with the pattern  *)
(* \b(19|20)\d{2}\b returns the text of its one group, the first two       *)
(* digits of each year.                                                    *)
(***************************************************************************)
Names(content) == SelectSeq(content, LAMBDA w : w \in {"Jane Doe", "Bob Roe"})

EmailPrefixTitle(email) ==
    CASE email = "jane.doe@example.com" -> "Jane Doe"
      [] email = "bob@example.org" -> "Bob"

YearGroup(year) == IF year = "1998" THEN 19 ELSE 20

YearGroups(content) ==
    LET years == SelectSeq(content, LAMBDA w : w \in {"1998", "2015"})
    IN  [i \in 1..Len(years) |-> YearGroup(years[i])]

KeywordsFound(keywords, content) ==
    SelectSeq(keywords, LAMBDA k : \E i \in 1..Len(content) : content[i] = k)

Range(seq) == {seq[i] : i \in 1..Len(seq)}

(***************************************************************************)
(* list(set(...)) and ', '.join(set(...)): a set of strings is iterated in *)
(* the order of its hash table, which the hash seed of the process fixes   *)
(* (str hashes are randomised per process).                                *)
(***************************************************************************)
HashOrder ==
    << <<"Jane Doe", "Bob Roe", "developer", "lead">>,
       <<"Jane Doe", "Bob Roe", "lead", "developer">>,
       <<"Bob Roe", "Jane Doe", "developer", "lead">>,
       <<"Bob Roe", "Jane Doe", "lead", "developer">> >>

HashSeeds == DOMAIN HashOrder

ListOfSet(S, hashseed) == SelectSeq(HashOrder[hashseed], LAMBDA x : x \in S)

(***************************************************************************)
(* RAGService._extract_names_info, _extract_experience_info,               *)
(* _extract_skills_info and _extract_education_info.  (The contents of the *)
(* model hold no line of spaced capitals and are shorter than the 200 and  *)
(* 300 characters the answers are cut at.)                                 *)
(***************************************************************************)
ExtractFrom(extractor, content, hashseed) ==
    LET answer == [extractor |-> extractor, lead |-> extractor, email |-> None,
                   phone |-> None, years |-> <<>>, found |-> <<>>, content |-> <<>>]
        years == YearGroups(content)
        found_roles == KeywordsFound(<<"developer", "lead">>, content)
        found_skills == KeywordsFound(<<"python">>, content)
        Least(ns) == CHOOSE n \in Range(ns) : \A m \in Range(ns) : n <= m
        Greatest(ns) == CHOOSE n \in Range(ns) : \A m \in Range(ns) : n >= m
    IN  CASE extractor = "name" ->
                IF Emails(content) # <<>>
                THEN [answer EXCEPT !.lead = "Based on the email address",
                                    !.found = <<EmailPrefixTitle(Emails(content)[1])>>]
                ELSE IF Names(content) # <<>>
                THEN [answer EXCEPT !.lead = "The person's name appears to be",
                                    !.found = <<ListOfSet(Range(Names(content)),
                                                          hashseed)[1]>>]
                ELSE [answer EXCEPT !.lead = "the name format makes it difficult",
                                    !.content = content]
          [] extractor = "experience" ->
                IF found_roles # <<>> \/ years # <<>>
                THEN [answer EXCEPT !.lead = "Work experience information",
                                    !.years = IF years # <<>>
                                              THEN <<Least(years), Greatest(years)>>
                                              ELSE <<>>,
                                    !.found = ListOfSet(Range(found_roles), hashseed),
                                    !.content = content]
                ELSE [answer EXCEPT !.lead = "Regarding work experience",
                                    !.content = content]
          [] extractor = "skills" ->
                IF found_skills # <<>>
                THEN [answer EXCEPT !.lead = "Technical skills mentioned",
                                    \* skill.title()
                                    !.found = [i \in DOMAIN found_skills |->
                                                  IF found_skills[i] = "python"
                                                  THEN "Python" ELSE found_skills[i]],
                                    !.content = content]
                ELSE [answer EXCEPT !.lead = "Skills and technologies",
                                    !.content = content]
          [] extractor = "education" ->
                IF KeywordsFound(<<"university">>, content) # <<>>
                THEN [answer EXCEPT !.lead = "Educational background",
                                    !.content = content]
                ELSE [answer EXCEPT !.lead = "Regarding education",
                                    !.content = content]

(***************************************************************************)
(* The if/elif chain of _simple_answer_generation (lines 296-311): the     *)
(* first test that finds one of its words in the lowered question decides. *)
(***************************************************************************)
CategoryContactFirst(question_lower) ==
    IF HasAny(question_lower, {"contact", "email", "phone", "address"}) THEN "contact"
    ELSE IF HasAny(question_lower, {"name", "who"}) THEN "name"
    ELSE IF HasAny(question_lower, {"experience", "work", "job", "position"})
    THEN "experience"
    ELSE IF HasAny(question_lower, {"skill", "technology", "technical"}) THEN "skills"
    ELSE IF HasAny(question_lower, {"education", "degree", "university", "college"})
    THEN "education"
    ELSE "general"

QuestionCategory(question_lower) ==
    IF HasAny(question_lower, {"name", "who"}) THEN "name"
    ELSE IF HasAny(question_lower, {"experience", "work", "job", "position"})
    THEN "experience"
    ELSE IF HasAny(question_lower, {"skill", "technology", "technical"}) THEN "skills"
    ELSE IF HasAny(question_lower, {"education", "degree", "university", "college"})
    THEN "education"
    ELSE IF HasAny(question_lower, {"contact", "email", "phone", "address"}) THEN "contact"
    ELSE "general"

(***************************************************************************)
(* RAGService._simple_answer_generation: the extractor of the question's   *)
(* category over the joined contents of the three most similar chunks, or  *)
(* the general answer from the most similar chunk.                         *)
(***************************************************************************)
simple_answer_generation(question, chunks, hashseed) ==
    LET top_chunks == SubSeq(SortedBySimilarity(chunks), 1,
                             IF Len(chunks) < 3 THEN Len(chunks) ELSE 3)
        combined_content == JoinContents(top_chunks)
        question_lower == [i \in 1..Len(question) |-> Lower(question[i])]
        category == QuestionCategory(question_lower)
    IN  IF chunks = <<>>
        THEN [extractor |-> "none", lead |-> "no relevant information",
              email |-> None, phone |-> None, years |-> <<>>, found |-> <<>>, content |-> <<>>]
        ELSE IF category = "contact" THEN extract_contact_info(combined_content)
        ELSE IF category # "general" THEN ExtractFrom(category, combined_content, hashseed)
        ELSE [extractor |-> "general",
              lead |-> IF HasAny(question_lower, {"what"})
                       THEN "According to the document"
                       ELSE IF HasAny(question_lower, {"how"})
                       THEN "The document explains"
                       ELSE IF HasAny(question_lower, {"why"})
                       THEN "The document indicates"
                       ELSE "Based on the document",
              email |-> None, phone |-> None, years |-> <<>>, found |-> <<>>,
              content |-> top_chunks[1].content]

(***************************************************************************)
(* Numbers.  A distance is a whole number, a similarity is counted in      *)
(* halves (2 is 1.0) and a confidence is the fraction num / den.           *)
(***************************************************************************)
RECURSIVE SumSimilarity(_)
SumSimilarity(chunks) ==
    IF chunks = <<>> THEN 0 ELSE chunks[1].similarity + SumSimilarity(Tail(chunks))

Fraction(num, den) == [num |-> num, den |-> den]

(***************************************************************************)
(* RAGService._generate_answer: min(avg_similarity * 1.2, 1.0), where      *)
(* avg_similarity = sum / len = (halves / 2) / len.                        *)
(***************************************************************************)
ConfidenceByExtractor(question, relevant_chunks, hashseed) ==
    LET scaled == 12 * SumSimilarity(relevant_chunks)
        one == 20 * Len(relevant_chunks)
        answer == simple_answer_generation(question, relevant_chunks, hashseed)
    IN  [answer |-> answer,
         confidence |-> IF answer.extractor = "contact" /\ answer.email = None
                        THEN Fraction(0, one)
                        ELSE Fraction(IF scaled < one THEN scaled ELSE one, one)]

generate_answer(question, relevant_chunks, hashseed) ==
    LET scaled == 12 * SumSimilarity(relevant_chunks)
        one == 20 * Len(relevant_chunks)
    IN  [answer |-> simple_answer_generation(question, relevant_chunks, hashseed),
         confidence |-> Fraction(IF scaled < one THEN scaled ELSE one, one)]

(***************************************************************************)
(* answer_question, lines 194-203: similarity = max(0.0, 1.0 - d / 2.0),   *)
(* attached to every search result.                                        *)
(***************************************************************************)
SimilarityUnclamped(distance) == 2 - distance

Similarity(distance) == IF 2 - distance > 0 THEN 2 - distance ELSE 0

ScoreResults(search_results) ==
    [i \in 1..Len(search_results) |->
        [id |-> search_results[i].id,
         content |-> search_results[i].content,
         metadata |-> search_results[i].metadata,
         distance |-> search_results[i].distance,
         similarity |-> Similarity(search_results[i].distance)]]

(***************************************************************************)
(* answer_question from its search results on (lines 186-236).  The second *)
(* test, of relevant_chunks, follows the code; every search result is kept *)
(* as a relevant chunk, so it never decides.                               *)
(***************************************************************************)
AnswerUnchecked(question, document_id, max_chunks, search_results, hashseed) ==
    LET relevant_chunks == ScoreResults(search_results)
    IN  IF relevant_chunks = <<>>
        THEN [op |-> "answer_question", exc |-> None,
              question |-> question, document_id |-> document_id,
              max_chunks |-> max_chunks, relevant_chunks |-> <<>>,
              answer |-> [extractor |-> "none", lead |-> "not relevant enough",
                          email |-> None, phone |-> None, years |-> <<>>, found |-> <<>>, content |-> <<>>],
              confidence |-> Fraction(2, 10),
              sources |-> <<>>]
        ELSE LET answer_result == generate_answer(question, relevant_chunks, hashseed)
             IN  [op |-> "answer_question", exc |-> None,
                  question |-> question, document_id |-> document_id,
                  max_chunks |-> max_chunks, relevant_chunks |-> relevant_chunks,
                  answer |-> answer_result.answer,
                  confidence |-> answer_result.confidence,
                  sources |-> [i \in 1..Len(relevant_chunks) |->
                                  [chunk_id |-> relevant_chunks[i].metadata.chunk_id,
                                   content |-> relevant_chunks[i].content,
                                   similarity |-> relevant_chunks[i].similarity,
                                   filename |-> relevant_chunks[i].metadata.filename,
                                   document_id |->
                                       relevant_chunks[i].metadata.document_id]]]

AnswerFrom(question, document_id, max_chunks, search_results, hashseed) ==
    LET relevant_chunks == ScoreResults(search_results)
    IN  IF search_results = <<>>
        THEN [op |-> "answer_question", exc |-> None,
              question |-> question, document_id |-> document_id,
              max_chunks |-> max_chunks, relevant_chunks |-> <<>>,
              answer |-> [extractor |-> "none", lead |-> "no relevant information",
                          email |-> None, phone |-> None, years |-> <<>>, found |-> <<>>, content |-> <<>>],
              confidence |-> Fraction(0, 1),
              sources |-> <<>>]
        ELSE IF relevant_chunks = <<>>
        THEN [op |-> "answer_question", exc |-> None,
              question |-> question, document_id |-> document_id,
              max_chunks |-> max_chunks, relevant_chunks |-> <<>>,
              answer |-> [extractor |-> "none", lead |-> "not relevant enough",
                          email |-> None, phone |-> None, years |-> <<>>, found |-> <<>>, content |-> <<>>],
              confidence |-> Fraction(2, 10),
              sources |-> <<>>]
        ELSE LET answer_result == generate_answer(question, relevant_chunks, hashseed)
             IN  [op |-> "answer_question", exc |-> None,
                  question |-> question, document_id |-> document_id,
                  max_chunks |-> max_chunks, relevant_chunks |-> relevant_chunks,
                  answer |-> answer_result.answer,
                  confidence |-> answer_result.confidence,
                  sources |-> [i \in 1..Len(relevant_chunks) |->
                                  [chunk_id |-> relevant_chunks[i].metadata.chunk_id,
                                   content |-> relevant_chunks[i].content,
                                   similarity |-> relevant_chunks[i].similarity,
                                   filename |-> relevant_chunks[i].metadata.filename,
                                   document_id |->
                                       relevant_chunks[i].metadata.document_id]]]

(***************************************************************************)
(* Questions asked of the store: RAGService.answer_question as one call.   *)
(***************************************************************************)
AskQuestions == {<<" ">>, <<"what">>, <<"Email", "x">>}

AnswerQuestion ==
    \E question \in AskQuestions, document_id \in {0} \cup StoreIds, max_chunks \in 1..MaxK,
       hashseed \in HashSeeds :
        /\ call' =
              IF Strip(question) = <<>>
              THEN [op |-> "answer_question", exc |-> "ValueError",
                    question |-> question, document_id |-> document_id,
                    max_chunks |-> max_chunks]
              ELSE AnswerFrom(question, document_id, max_chunks,
                              similarity_search(collection, Embed(question),
                                                max_chunks, document_id),
                              hashseed)
        /\ UNCHANGED <<serviceVars, cacheVars, concVars>>

NextAsk ==
    \/ AddDocuments
    \/ StoreDeleteDocument
    \/ SimilaritySearch
    \/ AnswerQuestion

SpecAsk == Init /\ [][NextAsk]_vars

(***************************************************************************)
(* C14: a similarity_search and an answer_question given a document_id     *)
(* return only results / sources whose metadata document_id is the given   *)
(* one, and never more than k (max_chunks) of them.                        *)
(***************************************************************************)
C14_FilteredRetrieval ==
    /\ call.op = "similarity_search" =>
          /\ Len(call.results) <= call.k
          /\ ~Falsy(call.document_id) =>
                \A i \in 1..Len(call.results) :
                    call.results[i].metadata.document_id = call.document_id
    /\ (call.op = "answer_question" /\ call.exc = None) =>
          /\ Len(call.sources) <= call.max_chunks
          /\ ~Falsy(call.document_id) =>
                \A i \in 1..Len(call.sources) :
                    call.sources[i].document_id = call.document_id

C14_Witness ==
    /\ call.op = "answer_question" /\ call.exc = None
    /\ ~Falsy(call.document_id)
    /\ Len(call.sources) = call.max_chunks
    /\ Len(get_documents_by_id(collection, call.document_id)) > call.max_chunks
    /\ \E i \in 1..Len(collection) :
          collection[i].metadata.document_id # call.document_id

(***************************************************************************)
(* C19: when the retrieval of an answer_question returns no chunk (the     *)
(* store is empty, or no record has the given document_id), the call       *)
(* raises nothing and returns the no-information answer with confidence    *)
(* 0.0 and no sources.                                                     *)
(***************************************************************************)
C19_EmptyRetrievalAnswer ==
    (/\ call.op = "answer_question"
     /\ Strip(call.question) # <<>>
     /\ similarity_search(collection, Embed(call.question), call.max_chunks,
                          call.document_id) = <<>>) =>
        /\ call.exc = None
        /\ call.answer.lead = "no relevant information"
        /\ call.confidence.num = 0
        /\ call.sources = <<>>

C19_Witness ==
    /\ call.op = "answer_question" /\ call.exc = None
    /\ ~Falsy(call.document_id)
    /\ collection # <<>>
    /\ get_documents_by_id(collection, call.document_id) = <<>>
    /\ call.answer.lead = "no relevant information"
    /\ call.sources = <<>>

(***************************************************************************)
(* answer_question from given search results: the results are drawn at     *)
(* the start, nearest first as the store returns them, and the call        *)
(* scores them and synthesizes the answer.                                 *)
(***************************************************************************)
MaxChunks == 2
MaxDistance == 4
MaxQuestionLen == 2
MaxSources == 2

RECURSIVE SeqsOver(_, _)
SeqsOver(S, n) ==
    IF n = 0 THEN {<<>>}
    ELSE LET shorter == SeqsOver(S, n - 1)
         IN  shorter \cup {Append(q, x) : q \in shorter, x \in S}

Retrieved(contents, distances) ==
    [i \in 1..Len(contents) |->
        [id |-> UuidId(i), content |-> contents[i],
         metadata |-> DictSet(PdfMetadata(1, contents[i]), "chunk_id", UuidId(i)),
         distance |-> distances[i]]]

Asked(question, search_results) ==
    [op |-> "retrieved", exc |-> None, question |-> question, document_id |-> 0,
     max_chunks |-> Len(search_results), search_results |-> search_results]

ScoreQuestions == {<<"what">>, <<"Email">>}

ScoreContents == {<<"x">>, <<"jane.doe@example.com">>}

NearestFirstLists(n) ==
    {d \in SeqsOver(0..MaxDistance, n) : \A i \in 1..(Len(d) - 1) : d[i] <= d[i + 1]}

ScoreInputs ==
    {Asked(input[1], Retrieved(input[2], input[3])) :
        input \in {t \in ScoreQuestions \X SeqsOver(ScoreContents, MaxChunks)
                              \X NearestFirstLists(MaxChunks) :
                      Len(t[2]) = Len(t[3])}}

InitScore == InitCacheOf({MaxCap}) /\ NothingStored /\ call \in ScoreInputs

AnswerRetrieved ==
    /\ call.op = "retrieved"
    /\ \E hashseed \in HashSeeds :
          call' = AnswerFrom(call.question, call.document_id, call.max_chunks,
                             call.search_results, hashseed)
    /\ UNCHANGED <<serviceVars, cacheVars, concVars>>

SpecScore == InitScore /\ [][AnswerRetrieved]_vars

(***************************************************************************)
(* Claim C17.  Every relevant chunk of an answer carries the similarity    *)
(* max(0, 1 - d / 2) of its distance d: in halves, 2 - d when d <= 2 and   *)
(* 0 beyond; it lies between 0 and 1.0, distance 0 gives 1.0 and distance  *)
(* 2 gives 0.0, and the sources report the same numbers.                   *)
(***************************************************************************)
C17_SimilarityNormalized ==
    call.op = "answer_question" =>
        /\ Len(call.sources) = Len(call.relevant_chunks)
        /\ \A i \in 1..Len(call.relevant_chunks) :
              LET chunk == call.relevant_chunks[i]
              IN  /\ chunk.similarity =
                        (IF chunk.distance <= 2 THEN 2 - chunk.distance ELSE 0)
                  /\ 0 <= chunk.similarity /\ chunk.similarity <= 2
                  /\ chunk.distance = 0 => chunk.similarity = 2
                  /\ chunk.distance = 2 => chunk.similarity = 0
                  /\ call.sources[i].similarity = chunk.similarity

C17_Witness ==
    /\ call.op = "answer_question"
    /\ \E i, j \in 1..Len(call.relevant_chunks) :
          /\ call.relevant_chunks[i].distance = 0
          /\ call.relevant_chunks[j].distance > 2
          /\ call.sources[j].similarity = 0

(***************************************************************************)
(* Claim C18.  For a non-empty list of scored chunks the confidence is     *)
(* min(1.2 x mean similarity, 1.0), counted over all the scored chunks; it *)
(* lies between 0 and 1; and it depends on the similarities alone: the     *)
(* synthesis of any other question over chunks of any other text with the  *)
(* same similarities reports the same confidence.                          *)
(***************************************************************************)
C18_ConfidenceFromSimilarities ==
    (call.op = "answer_question" /\ call.relevant_chunks # <<>>) =>
        LET chunks == call.relevant_chunks
            n == Len(chunks)
            halves == SumSimilarity(chunks)
            confidence == call.confidence
        IN  /\ confidence.den > 0
            /\ 0 <= confidence.num /\ confidence.num <= confidence.den
            \* mean = halves / (2 n), so 1.2 x mean = 12 halves / (20 n)
            /\ confidence.num * 20 * n =
                   confidence.den * (IF 12 * halves < 20 * n THEN 12 * halves
                                                             ELSE 20 * n)
            /\ \A question \in ScoreQuestions, contents \in SeqsOver(ScoreContents, n),
                  hashseed \in HashSeeds :
                  Len(contents) = n =>
                      generate_answer(question,
                          [i \in 1..n |-> [chunks[i] EXCEPT !.content = contents[i]]],
                          hashseed
                      ).confidence = confidence

C18_Witness ==
    /\ call.op = "answer_question"
    /\ Len(call.relevant_chunks) = MaxChunks
    /\ call.answer.extractor = "contact"
    /\ call.answer.email = None
    /\ 0 < call.confidence.num
    /\ call.confidence.num < call.confidence.den
    /\ \E i \in 1..Len(call.relevant_chunks) : call.relevant_chunks[i].similarity = 0

(***************************************************************************)
(* Question classification: answer_question over every question of up to   *)
(* MaxQuestionLen words and every list of up to MaxSources retrieved        *)
(* chunks, the i-th at distance i - 1.                                      *)
(***************************************************************************)
ClassifyWords ==
    {"Who", "filename", "network", "SKILL", "degree", "Email", "What", "x"}

ClassifyContents ==
    {<<"x">>, <<"Contact:", "jane.doe@example.com", "555-123-4567">>,
     <<"Jane Doe", "2015", "developer">>,
     <<"Bob Roe", "1998", "lead", "python", "university">>}

ClassifyInputs ==
    {Asked(question, Retrieved(contents, [i \in 1..Len(contents) |-> i - 1])) :
        question \in SeqsOver(ClassifyWords, MaxQuestionLen) \ {<<>>},
        contents \in SeqsOver(ClassifyContents, MaxSources) \ {<<>>}}

InitClassify == InitCacheOf({MaxCap}) /\ NothingStored /\ call \in ClassifyInputs

SpecClassify == InitClassify /\ [][AnswerRetrieved]_vars

(***************************************************************************)
(* Claim C20.  The extractor applied to a question is that of the earliest *)
(* category, in the order name/who, experience/work/job/position,          *)
(* skill/technology/technical, education/degree/university/college,        *)
(* contact/email/phone/address, having a keyword that occurs in the        *)
(* question whatever its case, and the general answer when none has; a     *)
(* contact question answered from chunks holding an e-mail address gives   *)
(* an answer holding the first such address.                               *)
(***************************************************************************)
CategoryOrder ==
    << [category |-> "name", words |-> {"name", "who"}],
       [category |-> "experience", words |-> {"experience", "work", "job", "position"}],
       [category |-> "skills", words |-> {"skill", "technology", "technical"}],
       [category |-> "education",
        words |-> {"education", "degree", "university", "college"}],
       [category |-> "contact", words |-> {"contact", "email", "phone", "address"}] >>

FirstMatch(question) ==
    LET occurs(i) == \E j \in 1..Len(question) :
                        KeywordsIn(Lower(question[j])) \cap CategoryOrder[i].words # {}
        matching == {i \in 1..Len(CategoryOrder) : occurs(i)}
    IN  IF matching = {} THEN "general"
        ELSE CategoryOrder[CHOOSE i \in matching : \A j \in matching : i <= j].category

C20_FirstMatchClassification ==
    (call.op = "answer_question" /\ call.relevant_chunks # <<>>) =>
        LET top == SubSeq(call.relevant_chunks, 1,
                          IF Len(call.relevant_chunks) < 3
                          THEN Len(call.relevant_chunks) ELSE 3)
            found == Emails(JoinContents(top))
        IN  /\ call.answer.extractor = FirstMatch(call.question)
            /\ (FirstMatch(call.question) = "contact" /\ found # <<>>) =>
                   call.answer.email = found[1]

C20_Witness ==
    /\ call.op = "answer_question"
    /\ call.question = <<"What", "Email">>
    /\ call.answer.extractor = "contact"
    /\ call.answer.email = "jane.doe@example.com"
    /\ Len(call.relevant_chunks) = MaxSources

(***************************************************************************)
(* The synthesizer by itself: _generate_answer over any list of scored     *)
(* chunks of up to MaxRanked chunks, in any order of similarity.           *)
(***************************************************************************)
MaxRanked == 4

RankContents == {<<"x">>, <<"jane.doe@example.com">>, <<"bob@example.org">>}

RankInputs ==
    {[op |-> "scored", exc |-> None, question |-> question,
      relevant_chunks |-> [i \in 1..Len(chunks) |->
                              [content |-> chunks[i][1], similarity |-> chunks[i][2]]]] :
        question \in ScoreQuestions,
        chunks \in SeqsOver(RankContents \X {Similarity(0), Similarity(2)},
                            MaxRanked) \ {<<>>}}

InitRank == InitCacheOf({MaxCap}) /\ NothingStored /\ call \in RankInputs

GenerateAnswer ==
    /\ call.op = "scored"
    /\ \E hashseed \in HashSeeds :
          LET answer_result == generate_answer(call.question, call.relevant_chunks,
                                               hashseed)
          IN  call' = [op |-> "generate_answer", exc |-> None,
                       question |-> call.question,
                       relevant_chunks |-> call.relevant_chunks,
                       answer |-> answer_result.answer,
                       confidence |-> answer_result.confidence]
    /\ UNCHANGED <<serviceVars, cacheVars, concVars>>

SpecRank == InitRank /\ [][GenerateAnswer]_vars

(***************************************************************************)
(* Claim C21.  The synthesizer reads the three chunks of greatest          *)
(* similarity, greatest first, and of chunks of equal similarity the one   *)
(* retrieved earlier first: the general answer is built from the earliest  *)
(* chunk of maximal similarity, and the contact answer holds the first     *)
(* e-mail address of the first of those three chunks that has one.         *)
(***************************************************************************)
C21_TopThreeStable ==
    call.op = "generate_answer" =>
        LET chunks == call.relevant_chunks
            n == Len(chunks)
            Place(i) == 1 + Cardinality({j \in 1..n :
                              \/ chunks[j].similarity > chunks[i].similarity
                              \/ /\ chunks[j].similarity = chunks[i].similarity
                                 /\ j < i})
            At(p) == CHOOSE i \in 1..n : Place(i) = p
            holding == {p \in 1..(IF n < 3 THEN n ELSE 3) :
                           Emails(chunks[At(p)].content) # <<>>}
            first == CHOOSE p \in holding : \A q \in holding : p <= q
        IN  /\ call.answer.extractor = "general" =>
                   /\ call.answer.content = chunks[At(1)].content
                   /\ \A j \in 1..n :
                         /\ chunks[At(1)].similarity >= chunks[j].similarity
                         /\ chunks[At(1)].similarity = chunks[j].similarity
                                => At(1) <= j
            /\ call.answer.extractor = "contact" =>
                   call.answer.email = IF holding = {} THEN None
                                       ELSE Emails(chunks[At(first)].content)[1]

C21_Witness ==
    /\ call.op = "generate_answer"
    /\ Len(call.relevant_chunks) = MaxRanked
    /\ call.answer.extractor = "general"
    /\ call.relevant_chunks[1].similarity < call.relevant_chunks[2].similarity
    /\ call.relevant_chunks[2].similarity = call.relevant_chunks[MaxRanked].similarity
    /\ call.relevant_chunks[2].content # call.relevant_chunks[MaxRanked].content
    /\ call.answer.content = call.relevant_chunks[2].content

(***************************************************************************)
(* Claim C22.  Answer synthesis is deterministic: whatever the process     *)
(* that runs it, the synthesis of a question over a list of scored chunks  *)
(* returns the answer and the confidence this run returned.                *)
(***************************************************************************)
C22_SynthesisDeterministic ==
    (call.op = "answer_question" /\ call.relevant_chunks # <<>>) =>
        \A hashseed \in HashSeeds :
            generate_answer(call.question, call.relevant_chunks, hashseed) =
                [answer |-> call.answer, confidence |-> call.confidence]

(***************************************************************************)
(* Claim C25.  For an experience question over chunks whose text holds     *)
(* 4-digit years between 1900 and 2099, the answer reports the range from  *)
(* the smallest to the largest of those years.                             *)
(***************************************************************************)
YearNumber(year) == IF year = "1998" THEN 1998 ELSE 2015

C25_YearRangeReported ==
    (/\ call.op = "answer_question"
     /\ call.relevant_chunks # <<>>
     /\ call.answer.extractor = "experience") =>
        LET top == SubSeq(call.relevant_chunks, 1,
                          IF Len(call.relevant_chunks) < 3
                          THEN Len(call.relevant_chunks) ELSE 3)
            years == {YearNumber(w) : w \in Range(JoinContents(top)) \cap {"1998", "2015"}}
            smallest == CHOOSE y \in years : \A z \in years : y <= z
            largest == CHOOSE y \in years : \A z \in years : y >= z
        IN  years # {} => call.answer.years = <<smallest, largest>>

(***************************************************************************)
(* Claim C26.  In a cache of capacity 1 or more, after any sequence of     *)
(* put, get and clear, access_order holds exactly the keys of the cache,   *)
(* each once, and no call has raised.                                      *)
(***************************************************************************)
C26_RecencyListMatchesCache ==
    max_size >= 1 =>
        /\ Range(access_order) = DOMAIN cache
        /\ Len(access_order) = Cardinality(DOMAIN cache)
        /\ cache_call.exc = None

(***************************************************************************)
(* Claim C29.  delete_document(id) returns False, and the endpoint answers *)
(* 404 'Document not found', only when the call changed nothing: neither   *)
(* the tracked metadata nor the records of the store.                      *)
(***************************************************************************)
C29_NotFoundOnlyIfUnchanged ==
    [][(response'.op = "delete" /\ response'.code = 404)
          => /\ documents_metadata' = documents_metadata
             /\ collection' = collection]_vars

(***************************************************************************)
(* Claim C27.  When no ingestion is running, every document tracked as     *)
(* completed has a chunk_count of 1 or more that equals the number of      *)
(* records of the store tagged with its id, and every record of the store  *)
(* is tagged with the id of a document tracked as completed.               *)
(***************************************************************************)
C27_CompletedMatchesStore ==
    running = 0 =>
        /\ \A d \in DOMAIN documents_metadata :
              documents_metadata[d].status = "completed" =>
                  /\ documents_metadata[d].chunk_count >= 1
                  /\ documents_metadata[d].chunk_count =
                         Cardinality({i \in 1..Len(collection) :
                                         collection[i].metadata.document_id = d})
        /\ \A i \in 1..Len(collection) :
              LET d == collection[i].metadata.document_id
              IN  /\ d \in DOMAIN documents_metadata
                  /\ documents_metadata[d].status = "completed"

C27_Witness ==
    /\ running = 0
    /\ deleted # {}
    /\ collection # <<>>
    /\ \E d \in DOMAIN documents_metadata : documents_metadata[d].status = "completed"

(***************************************************************************)
(* VectorStore.get_collection_stats and RAGService.get_service_stats: the  *)
(* counters they report in the present state.                              *)
(***************************************************************************)
get_collection_stats ==
    [total_chunks |-> Len(collection),
     total_documents |-> Len(list_documents(collection))]

get_service_stats ==
    [total_documents |-> Cardinality(DOMAIN documents_metadata),
     total_chunks |-> get_collection_stats.total_chunks]

(***************************************************************************)
(* Claim C28.  The counters agree with the listing: total_documents is the *)
(* number of documents list_documents() returns and total_chunks is the    *)
(* sum of their chunk_count values.                                        *)
(***************************************************************************)
RECURSIVE SumOfCounts(_)
SumOfCounts(docs) ==
    IF docs = {} THEN 0
    ELSE LET doc == CHOOSE x \in docs : TRUE
         IN  doc.chunk_count + SumOfCounts(docs \ {doc})

C28_StatsAgreeWithListing ==
    running = 0 =>
        /\ get_service_stats.total_documents = Cardinality(ListedDocuments)
        /\ get_service_stats.total_chunks = SumOfCounts(ListedDocuments)

(***************************************************************************)
(* The chunker by itself: PDFProcessor.create_chunks over every text of up *)
(* to MaxChunkText characters, with every list of chunks the splitter may  *)
(* return for it.                                                          *)
(***************************************************************************)
MaxChunkText == 4

InitChunk ==
    /\ InitCacheOf({MaxCap})
    /\ NothingStored
    /\ call \in {[op |-> "text", exc |-> None, text |-> text] :
                    text \in SeqsUpTo(MaxChunkText)}

CreateChunksUnchecked ==
    /\ call.op = "text"
    /\ \E chunks \in Splits(call.text) :
          call' = [op |-> "create_chunks", exc |-> None, msg |-> None,
                   text |-> call.text, chunks |-> chunks,
                   documents |-> create_chunks(chunks, PdfMetadata(1, call.text))]
    /\ UNCHANGED <<serviceVars, cacheVars, concVars>>

CreateChunks ==
    /\ call.op = "text"
    /\ IF Strip(call.text) = <<>>
       THEN call' = [op |-> "create_chunks", exc |-> "ValueError",
                     msg |-> "Empty text provided for chunking",
                     text |-> call.text, chunks |-> <<>>, documents |-> <<>>]
       ELSE \E chunks \in Splits(call.text) :
               call' = [op |-> "create_chunks", exc |-> None, msg |-> None,
                        text |-> call.text, chunks |-> chunks,
                        documents |-> create_chunks(chunks, PdfMetadata(1, call.text))]
    /\ UNCHANGED <<serviceVars, cacheVars, concVars>>

SpecChunk == InitChunk /\ [][CreateChunks]_vars

C24_BlankTextRejected ==
    call.op = "create_chunks" =>
        LET blank == \A i \in 1..Len(call.text) : call.text[i] = " "
        IN  /\ blank <=> (/\ call.exc = "ValueError"
                          /\ call.msg = "Empty text provided for chunking")
            /\ blank => call.documents = <<>>
            /\ ~blank => (call.exc = None /\ call.documents # <<>>)

C24_Witness ==
    /\ call.op = "create_chunks"
    /\ Len(call.text) = MaxChunkText
    /\ call.exc = "ValueError"

(***************************************************************************)
(* Claim C30.  An ingestion that ends in failed leaves the vector store    *)
(* as it was: no step of it changes the records of the store or the        *)
(* tracked record of another document, and once it has failed the store    *)
(* holds no record tagged with its document_id.                            *)
(***************************************************************************)
C30_FailedIngestionLeavesStore ==
    /\ [][\A t \in TaskIds :
             (running = t /\ tasks'[t].pc \in {"except", "finished"}
                          /\ tasks'[t].trace # PipelineOrder)
                 => /\ collection' = collection
                    /\ \A d \in DOMAIN documents_metadata \ {tasks[t].doc} :
                          /\ d \in DOMAIN documents_metadata'
                          /\ documents_metadata'[d] = documents_metadata[d]]_vars
    /\ [](running = 0 =>
             \A d \in DOMAIN documents_metadata :
                 documents_metadata[d].status = "failed" => RecordsOf(d) = <<>>)

C30_Witness ==
    /\ running = 0
    /\ collection # <<>>
    /\ \E d \in DOMAIN documents_metadata :
          /\ documents_metadata[d].status = "failed"
          /\ documents_metadata[d].error_message = "collection add failed"

====
